---- MODULE Spec2Model ----
(***************************************************************************)
(* Model of the master-programs consultant bot: the retrieval pipeline of  *)
(* src/bot/handlers.py (message_router), the relevance gate and answer     *)
(* synthesizer of src/bot/rag.py, the recommender of src/bot/recommender.py *)
(* and the corpus builder of src/pipeline/build_corpus.py.                 *)
(*                                                                         *)
(* Strings are sequences of atoms.  An atom is a maximal run of characters *)
(* that no keyword of the program cuts in two, written in Latin            *)
(* transliteration ("stoimost" + "'" is the Russian word for cost, "rub"   *)
(* the currency word, "R-sign" the currency sign).  Substring tests,       *)
(* strip, lower, split and replace are computed on these sequences as      *)
(* Python computes them on characters.  Similarities are in hundredths     *)
(* (15 is 0.15).                                                           *)
(***************************************************************************)
EXTENDS Integers, Sequences, FiniteSets, TLC

VARIABLES
    docs,        \* Retriever.docs: the Document Store, in index order
    programs,    \* bot_data["programs"]: the catalog, a sequence of programs
    index,       \* the loaded vector index: which similarity table it answers with
    generator,   \* bot_data["generator"] is not None
    user_data,   \* context.user_data of the session
    conv,        \* the ConversationHandler's state for the session
    pc,          \* "idle", "generating" (inside generator.generate) or "hung"
    cur,         \* the update being handled or handled last
    fin,         \* inputs of the pure-function specifications
    fout         \* results of the pure-function specifications

vars == <<docs, programs, index, generator, user_data, conv, pc, cur, fin, fout>>

NONE == "NONE"

----------------------------------------------------------------------------
(* Text primitives (Python str methods on atom sequences)                  *)

\* a list comprehension's value, as a list
Tuple(f) == SubSeq(f, 1, Len(f))

\* str.lower() on one atom
LowerAtom(a) ==
    CASE a = "Stoimost"  -> "stoimost"
      [] a = "Kursy"     -> "kursy"
      [] a = "Praktik"   -> "praktik"
      [] a = "AI"        -> "ai"
      [] a = "II"        -> "ii"
      [] a = "Product"   -> "product"
      [] a = "Lektor"    -> "lektor"
      [] a = "Uchebnyj plan" -> "uchebnyj plan"
      [] a = "Pul vybornyh"  -> "pul vybornyh"
      [] a = "Mashinnoe obuchenie" -> "mashinnoe obuchenie"
      [] a = "Analiz dannyh" -> "analiz dannyh"
      [] a = "Filosofiya"    -> "filosofiya"
      [] a = "Srok obucheniya" -> "srok obucheniya"
      [] OTHER           -> a

Lower(s) == Tuple([i \in 1..Len(s) |-> LowerAtom(s[i])])

IsSpace(a) == a = " "

RECURSIVE LStrip(_)
LStrip(s) == IF s # <<>> /\ IsSpace(Head(s)) THEN LStrip(Tail(s)) ELSE s

RECURSIVE RStrip(_)
RStrip(s) ==
    IF s # <<>> /\ IsSpace(s[Len(s)]) THEN RStrip(SubSeq(s, 1, Len(s) - 1)) ELSE s

\* str.strip()
Strip(s) == RStrip(LStrip(s))

\* kw in s, for a non-empty kw
Contains(s, kw) ==
    \E i \in 1..(Len(s) - Len(kw) + 1) : SubSeq(s, i, i + Len(kw) - 1) = kw

\* s.endswith(kw)
EndsWith(s, kw) ==
    Len(s) >= Len(kw) /\ SubSeq(s, Len(s) - Len(kw) + 1, Len(s)) = kw

\* s.split(sep)[0] for a one-atom separator
RECURSIVE SplitFirst(_, _)
SplitFirst(s, sep) ==
    IF s = <<>> \/ Head(s) = sep THEN <<>>
    ELSE <<Head(s)>> \o SplitFirst(Tail(s), sep)

\* s.replace(old, ""), left to right, non-overlapping
RECURSIVE Remove(_, _)
Remove(s, old) ==
    IF s = <<>> THEN <<>>
    ELSE IF Len(s) >= Len(old) /\ SubSeq(s, 1, Len(old)) = old
         THEN Remove(SubSeq(s, Len(old) + 1, Len(s)), old)
         ELSE <<Head(s)>> \o Remove(Tail(s), old)

\* sep.join(parts)
RECURSIVE Join(_, _)
Join(parts, sep) ==
    IF parts = <<>> THEN <<>>
    ELSE IF Len(parts) = 1 THEN parts[1]
    ELSE parts[1] \o sep \o Join(Tail(parts), sep)

\* seq[:n] for n >= 0
Take(s, n) == SubSeq(s, 1, IF n < Len(s) THEN n ELSE Len(s))

Range(s) == {s[i] : i \in 1..Len(s)}

\* the positions of keys in stable descending order: list.sort(key, reverse=True)
\* keeps equal keys in their original order.  Keys are pairs, compared as tuples.
TupleGT(a, b) == a[1] > b[1] \/ (a[1] = b[1] /\ a[2] > b[2])

SortPos(keys, i) ==
    1 + Cardinality({j \in 1..Len(keys) :
                        TupleGT(keys[j], keys[i]) \/ (keys[j] = keys[i] /\ j < i)})

InversePerm(pos) == Tuple([p \in 1..Len(pos) |-> CHOOSE i \in 1..Len(pos) : pos[i] = p])

StableDescOrder(keys) == InversePerm(Tuple([i \in 1..Len(keys) |-> SortPos(keys, i)]))

----------------------------------------------------------------------------
(* The catalog and the corpus built from it (build_corpus.build_documents) *)

Entry(nm, tp, sem) == [name |-> nm, type |-> tp, semester |-> sem]

CourseML      == <<"Mashinnoe obuchenie">>
CourseData    == <<"Analiz dannyh">>
CoursePhil    == <<"Filosofiya">>
CoursePract   == <<"Praktik", "a">>
CoursePlan    == <<"Uchebnyj plan">>
CourseSemHead == <<"Pul vybornyh", " ", "disciplin", ".", " ", "1", " ", "semestr">>

ProgAI ==
    [title |-> "AI", url |-> "url-ai", description |-> <<"opisanie-ai">>,
     tuition |-> <<"599k", " ", "R-sign">>, duration |-> <<"2y">>,
     language |-> <<>>, faculty |-> <<>>,
     curriculum |-> <<Entry(CoursePlan, NONE, NONE), Entry(CourseML, NONE, NONE),
                      Entry(CourseData, "vybor", NONE), Entry(CoursePract, NONE, "3")>>,
     contacts |-> <<"email: ai@itmo">>]

ProgPM ==
    [title |-> "PM", url |-> NONE, description |-> <<>>,
     tuition |-> <<>>, duration |-> <<"2y">>,
     language |-> <<>>, faculty |-> <<>>,
     curriculum |-> <<Entry(CourseData, NONE, NONE)>>,
     contacts |-> <<>>]

ProgSmall ==
    [title |-> "AI", url |-> "url-ai", description |-> <<>>,
     tuition |-> <<"599k", " ", "R-sign">>, duration |-> <<>>,
     language |-> <<>>, faculty |-> <<>>,
     curriculum |-> <<Entry(CourseML, NONE, NONE)>>,
     contacts |-> <<>>]

ProgHeadings ==
    [title |-> "PM", url |-> NONE, description |-> <<>>,
     tuition |-> <<>>, duration |-> <<>>,
     language |-> <<>>, faculty |-> <<>>,
     curriculum |-> <<Entry(CoursePlan, NONE, NONE), Entry(<<>>, NONE, NONE)>>,
     contacts |-> <<>>]

\* the catalogs the bot is started with
Catalogs == { <<ProgAI, ProgPM>>, <<ProgSmall, ProgHeadings>> }

Doc(i, t, prog, sec) ==
    [id |-> i, text |-> t,
     meta |-> [program_title |-> prog.title, program_url |-> prog.url, section |-> sec]]

\* one description is one chunk: descriptions here are shorter than max_len
DescDocs(prog) ==
    IF prog.description = <<>> THEN <<>>
    ELSE <<Doc(<<prog.title, "desc", 0>>, prog.description, prog, "description")>>

FactParts(prog) ==
       (IF prog.tuition # <<>>
        THEN << <<"Stoimost", "'", ":", " ">> \o prog.tuition >> ELSE <<>>)
    \o (IF prog.duration # <<>>
        THEN << <<"Srok obucheniya", ":", " ">> \o prog.duration >> ELSE <<>>)
    \o (IF prog.language # <<>>
        THEN << <<"Yazyk obucheniya", ":", " ">> \o prog.language >> ELSE <<>>)
    \o (IF prog.faculty # <<>>
        THEN << <<"Fakultet", ":", " ">> \o prog.faculty >> ELSE <<>>)

FactDocs(prog) ==
    IF FactParts(prog) = <<>> THEN <<>>
    ELSE <<Doc(<<prog.title, "facts">>, Join(FactParts(prog), <<";", " ">>), prog, "facts")>>

CourseText(c) ==
       c.name
    \o (IF c.type # NONE THEN <<" ", "|", " ", "tip", ":", " ", c.type>> ELSE <<>>)
    \o (IF c.semester # NONE
        THEN <<" ", "|", " ", "semestr", ":", " ", c.semester>> ELSE <<>>)

RECURSIVE CourseDocs(_, _)
CourseDocs(prog, i) ==
    IF i > Len(prog.curriculum) THEN <<>>
    ELSE (IF prog.curriculum[i].name = <<>> THEN <<>>
          ELSE <<Doc(<<prog.title, "course", prog.curriculum[i].name>>,
                     CourseText(prog.curriculum[i]), prog, "course")>>)
         \o CourseDocs(prog, i + 1)

ContactDocs(prog) ==
    IF prog.contacts = <<>> THEN <<>>
    ELSE <<Doc(<<prog.title, "contacts">>, prog.contacts, prog, "contacts")>>

RECURSIVE build_documents(_)
build_documents(progs) ==
    IF progs = <<>> THEN <<>>
    ELSE DescDocs(Head(progs)) \o FactDocs(Head(progs))
         \o CourseDocs(Head(progs), 1) \o ContactDocs(Head(progs))
         \o build_documents(Tail(progs))

\* load_programs: the catalog keyed by title
Titles(progs) == {progs[i].title : i \in 1..Len(progs)}
ProgramByTitle(progs, t) == progs[CHOOSE i \in 1..Len(progs) : progs[i].title = t]

----------------------------------------------------------------------------
(* Retriever.search over the loaded index                                  *)

\* what IndexFlatIP.search reports in a slot it has no document for
NoMatchSim == -340
NoMatchIdx == -1

\* the similarity tables an index may hold, by document position
SimProfiles ==
    << <<10, 10, 10, 10, 10, 10, 10, 10, 10>>,
       <<40, 15, 40, 40, 40, 40, 90, 10, 10>>,
       <<40, 10, 15, 15, 10, 10, 10, 90, 90>>,
       <<90, 90, 40, 40, 15, 15, 10, 10, 10>>,
       <<40, 10, 40, 40, 40, 40, 40, 15, 15>> >>

Indexes == 0..(Len(SimProfiles) - 1)

\* the free-text messages a user sends
QCost    == <<"skolko stoit", " ", "obuchenie">>
QPrice   == <<"Stoimost", "'", " ", "i", " ", "kto", " ", "ved", "et">>
QTeach   == <<"kto", " ", "ved", "et">>
QPref    == <<"chto vybrat">>
QCourses == <<"Kursy">>
QOff     == <<"pogoda">>
QAlias   == <<"i">>
QBlank   == <<" ">>
QTitleAI == <<"AI">>
QTitlePM == <<"PM">>

\* the texts search and the gate work on: the messages, stripped
QueryList == <<QCost, QPrice, QTeach, QPref, QCourses, QOff, QAlias, <<>>,
               QTitleAI, QTitlePM>>
Queries == Range(QueryList)
QueryNo(q) == CHOOSE i \in 1..Len(QueryList) : QueryList[i] = q

\* the index's similarities for a query, by document position
SimsFor(ix, q) == SimProfiles[((ix + QueryNo(q)) % Len(SimProfiles)) + 1]

FaissPick(sims, order, n, k) ==
    Tuple([j \in 1..k |->
              IF j <= n THEN [idx |-> order[j], sim |-> sims[order[j]]]
              ELSE [idx |-> NoMatchIdx, sim |-> NoMatchSim]])

\* IndexFlatIP.search: the k best positions, best first; slots beyond the
\* number of documents hold NoMatchIdx with NoMatchSim
FaissSearch(sims, n, k) ==
    FaissPick(sims, StableDescOrder(Tuple([i \in 1..n |-> <<sims[i], 0>>])), n, k)

\* self.docs[i] for a Python index i: -1 is the last document
PyIndex(n, i) == IF i < 0 THEN n + 1 + i ELSE i

PairsOf(n, hits) ==
    Tuple([j \in 1..Len(hits) |-> [d |-> PyIndex(n, hits[j].idx), s |-> hits[j].sim]])

\* variant: the retriever hands out again the list of the last search for the
\* same text, the list message_router re-ranked in place
searchCached(ds, ix, q, k) ==
    IF cur.pairs # <<>> /\ Strip(cur.text) = q THEN cur.pairs
    ELSE PairsOf(Len(ds), FaissSearch(SimsFor(ix, q), Len(ds), k))

\* Retriever.search: pairs of (document position, similarity)
search(ds, ix, q, k) == PairsOf(Len(ds), FaissSearch(SimsFor(ix, q), Len(ds), k))

----------------------------------------------------------------------------
(* message_router: re-ranking, facts injection, truncation                 *)

SearchK == 8
TopN == 5
InjectedScore == 100

_COST_WORDS ==
    { <<"skolko stoit">>, <<"stoimost">>, <<"cena">>, <<"skolko v god">>,
      <<"platn">>, <<"rub">>, <<"R-sign">> }

_PREF_WORDS ==
    { <<"luchshie predmety">>, <<"samye luchshie">>, <<"samye interesnye">>,
      <<"chto vybrat">>, <<"kakie predmety luchshe">> }

AnyIn(words, s) == \E w \in words : Contains(s, w)

\* variant: any document that names a program scores 1, the selected one or not
_prog_score_any_program(ds, p, prog_name) ==
    IF ds[p.d].meta.program_title # NONE THEN 1 ELSE 0

_prog_score(ds, p, prog_name) ==
    IF ds[p.d].meta.program_title = prog_name THEN 1 ELSE 0

Permute(s, order) == Tuple([i \in 1..Len(s) |-> s[order[i]]])

\* variant: the sort key without the program component
RerankBySimilarity(ds, pairs, prog_name) ==
    Permute(pairs, StableDescOrder(Tuple([i \in 1..Len(pairs) |-> <<0, pairs[i].s>>])))

\* pairs.sort(key=lambda p: (_prog_score(p), p[1]), reverse=True)
Rerank(ds, pairs, prog_name) ==
    Permute(pairs, StableDescOrder(
        Tuple([i \in 1..Len(pairs) |->
                  <<_prog_score(ds, pairs[i], prog_name), pairs[i].s>>])))

\* the least position in a non-empty set of positions, 0 for the empty set
FirstOf(hits) == IF hits = {} THEN 0 ELSE CHOOSE i \in hits : \A j \in hits : i <= j

\* next(d for d in retr.docs if program_title == prog_name and section == "facts")
FactDocOf(ds, prog_name) ==
    FirstOf({i \in 1..Len(ds) : /\ ds[i].meta.program_title = prog_name
                                /\ ds[i].meta.section = "facts"})

Prepend(pairs, fact_doc) ==
    IF fact_doc # 0 /\ \A i \in 1..Len(pairs) : pairs[i].d # fact_doc
    THEN <<[d |-> fact_doc, s |-> InjectedScore]>> \o pairs
    ELSE pairs

InjectFacts(ds, pairs, text, prog_name) ==
    IF AnyIn(_COST_WORDS, Lower(text)) THEN Prepend(pairs, FactDocOf(ds, prog_name))
    ELSE pairs

\* the candidate set message_router hands to is_relevant and build_answer
Candidates(ds, ix, text, prog_name) ==
    Take(InjectFacts(ds, Rerank(ds, search(ds, ix, text, SearchK), prog_name),
                     text, prog_name), TopN)

----------------------------------------------------------------------------
(* rag.is_relevant                                                         *)

ALLOWED_KEYWORDS ==
    { <<"magistratura">>, <<"uchebnyj plan">>, <<"discipliny">>, <<"Kursy">>,
      <<"semestr">>, <<"predmety">>, <<"profil">>, <<"postuplenie">>,
      <<"programma">>, <<"AI">>, <<"II">>, <<"AI", " ", "Product">>,
      <<"aspirantura">>, <<"stoimost", "'">>, <<"yazyk obucheniya">>,
      <<"kontakty">>, <<"fakultet">>, <<"srok obucheniya">>, <<"cena">> }

AliasThreshold == 70
SimFloor == 15

\* fuzz.partial_ratio(" ".join(PROGRAM_ALIASES).lower(), q): the library's value
\* for each message (best Indel ratio of the shorter string against the windows
\* of the longer one, 0 for an empty string)
PartialRatioAlias(q) ==
    CASE q = QCost    -> 37
      [] q = QPrice   -> 42
      [] q = QTeach   -> 61
      [] q = QPref    -> 42
      [] q = QCourses -> 60
      [] q = QOff     -> 50
      [] q = QAlias   -> 100
      [] q = QTitleAI -> 100
      [] q = QTitlePM -> 50
      [] OTHER        -> 0

key_hit(question) == \E kw \in ALLOWED_KEYWORDS : Contains(Lower(question), Lower(kw))
alias_hit(question) == PartialRatioAlias(question) > AliasThreshold
\* variant: the similarity floor taken inclusively
retr_hit_inclusive(retrieved) == \E i \in 1..Len(retrieved) : retrieved[i].s >= SimFloor
retr_hit(retrieved) == \E i \in 1..Len(retrieved) : retrieved[i].s > SimFloor

is_relevant(question, retrieved) ==
    key_hit(question) \/ alias_hit(question) \/ retr_hit(retrieved)

----------------------------------------------------------------------------
(* rag.build_answer                                                        *)

\* a Python value that is neither None nor ""
Truthy(x) == x # NONE /\ x # ""

OneCharAtoms == {" ", "'", ":", ";", "|", ".", ",", "(", ")", "a", "y", "i", "1", "3"}

\* len(s) in characters: an atom outside OneCharAtoms stands for two
\* characters or more, "title-of-81" and "title-of-80" for runs of 81 and 80
AtomLen(a) ==
    IF a \in OneCharAtoms THEN 1
    ELSE IF a = "title-of-81" THEN 81
    ELSE IF a = "title-of-80" THEN 80
    ELSE 2

RECURSIVE CharLen(_)
CharLen(s) == IF s = <<>> THEN 0 ELSE AtomLen(Head(s)) + CharLen(Tail(s))

Project(s, field) == Tuple([i \in 1..Len(s) |-> s[i][field]])

\* docs = [d for (d, _s) in retrieved if d and d.text]
TextDocs(retrieved) ==
    Project(SelectSeq(retrieved, LAMBDA p : p.doc.text # <<>>), "doc")

InfoOf(ds, i) ==
    IF i = 0 THEN [title |-> NONE, url |-> NONE]
    ELSE [title |-> ds[i].meta.program_title, url |-> ds[i].meta.program_url]

_extract_program_info(ds) ==
    InfoOf(ds, FirstOf({i \in 1..Len(ds) : Truthy(ds[i].meta.program_title)
                                           \/ Truthy(ds[i].meta.program_url)}))

_looks_like_teacher_question(q) ==
    AnyIn({ <<"kto", " ", "ved">>, <<"kto", " ", "prepod", "a">>,
            <<"prepod", "a", "vatel">>, <<"lektor">>, <<"prepod", "y">>,
            <<"kto", " ", "chitaet">> }, Lower(q))

_looks_like_cost_question(q) ==
    AnyIn({ <<"skolko stoit">>, <<"stoimost">>, <<"cena">>, <<"skolko v god">>,
            <<"platn">>, <<"rub">>, <<"R-sign">> }, Lower(q))

_find_facts(ds) ==
    Project(SelectSeq(ds, LAMBDA d : d.meta.section = "facts" /\ d.text # <<>>), "text")

CostCues == { <<"stoimost", "'">>, <<"cena">>, <<"rub">>, <<"R-sign">> }

AtOr(s, i, default) == IF i = 0 THEN default ELSE s[i]

\* next((f for f in facts if any(w in f.lower() ...)), None); <<>> stands for None
FactLine(facts) ==
    AtOr(facts, FirstOf({i \in 1..Len(facts) : AnyIn(CostCues, Lower(facts[i]))}), <<>>)

CourseHeadingCues ==
    { <<"uchebnyj plan">>, <<"naimenovanie modulej">>, <<"blok", " ", "1">>,
      <<"obyazateln", "ye", " ", "discipliny">>, <<"pul vybornyh">> }

\* one document of the loop: skipped, or its stripped text
CourseName(d) ==
    IF d.meta.section # "course" THEN <<>> ELSE Strip(d.text)

SkipName(txt) ==
    txt = <<>> \/ CharLen(txt) < 2 \/ AnyIn(CourseHeadingCues, Lower(txt))

AddName(names, txt) == IF txt \in Range(names) THEN names ELSE Append(names, txt)

RECURSIVE CollectFrom(_, _, _, _)
RECURSIVE CollectNext(_, _, _, _)
\* the loop of _collect_course_names from document i on
CollectFrom(ds, i, names, limit) ==
    IF i > Len(ds) THEN names
    ELSE IF SkipName(CourseName(ds[i])) THEN CollectFrom(ds, i + 1, names, limit)
    ELSE CollectNext(ds, i, AddName(names, CourseName(ds[i])), limit)

\* if len(names) >= limit: break
CollectNext(ds, i, names, limit) ==
    IF Len(names) >= limit THEN names ELSE CollectFrom(ds, i + 1, names, limit)

_collect_course_names(ds, limit) == CollectFrom(ds, 1, <<>>, limit)

CourseLimit == 5
GenericWindow == 3
GenericLines == 2

\* the generic path's loop over retrieved[:3]
RECURSIVE SnippetLines(_, _, _)
SnippetLines(retrieved, i, lines) ==
    IF i > Len(retrieved) THEN lines
    ELSE SnippetLines(retrieved, i + 1,
                      IF Strip(retrieved[i].doc.text) = <<>> THEN lines
                      ELSE AddName(lines, Strip(retrieved[i].doc.text)))

NoAnswerText == <<"K sozhaleniyu, ya ne nashel otveta v materialah programm. Utochnite vopros.">>
NoBodyText   == <<"Ne udalos sformirovat otvet po materialam. Utochnite vopros.">>
NoStaffBase  == <<"V otkrytyh materialah programmy net fiksirovannogo spiska prepodavatelej.">>

\* the three personalisations of a sentence: title and url, title only, neither
Personalised(info, both, titled, plain) ==
    IF Truthy(info.title) /\ Truthy(info.url) THEN both
    ELSE IF Truthy(info.title) THEN titled
    ELSE plain

CostValue(fact_line) ==
    Strip(Remove(SplitFirst(fact_line, ";"), <<"Stoimost", "'", ":">>))

CostAnswer(info, fact_line) ==
    Personalised(info,
        <<"Stoimost obucheniya po programme ", info.title, ": ">> \o CostValue(fact_line)
            \o <<". Podrobnee - ", info.url, ".">>,
        <<"Stoimost obucheniya po programme ", info.title, ": ">> \o CostValue(fact_line)
            \o <<".">>,
        fact_line)

StaffAnswer(info) ==
    Personalised(info,
        NoStaffBase \o <<" Aktualnuyu informaciyu publikuyut na stranice programmy ",
                         info.title, ": ", info.url, ".">>,
        NoStaffBase \o <<" Utochnite u uchebnogo ofisa programmy ", info.title, ".">>,
        NoStaffBase \o <<" Posmotrite stranicu programmy ili utochnite vopros.">>)

CourseAnswer(info, listed) ==
    Personalised(info,
        <<"Po uchebnomu planu programmy ", info.title, " polezny discipliny: ">>
            \o listed \o <<". Polnyj spisok - na stranice programmy: ", info.url, ".">>,
        <<"V uchebnom plane ", info.title, " vstrechayutsya kursy: ">> \o listed \o <<".">>,
        <<"Sredi podhodyashchih kursov: ">> \o listed \o <<".">>)

GenericBody(lines) ==
    IF Len(lines) >= 2 THEN Join(Take(lines, GenericLines), <<" ">>) ELSE lines[1]

\* variant: the generic branch without its "no text" guard
GenericFromUnguarded(info, lines) ==
    Personalised(info,
        <<"Po materialam programmy ", info.title, ": ">>
            \o Join(Take(lines, GenericLines), <<" ">>) \o <<". Podrobnee - ", info.url, ".">>,
        <<"Po materialam ", info.title, ": ">> \o Join(Take(lines, GenericLines), <<" ">>)
            \o <<".">>,
        Join(Take(lines, GenericLines), <<" ">>))

GenericFrom(info, lines) ==
    IF lines = <<>> THEN NoBodyText
    ELSE Personalised(info,
            <<"Po materialam programmy ", info.title, ": ">> \o GenericBody(lines)
                \o <<". Podrobnee - ", info.url, ".">>,
            <<"Po materialam ", info.title, ": ">> \o GenericBody(lines) \o <<".">>,
            GenericBody(lines))

GenericAnswer(info, retrieved) ==
    GenericFrom(info, SnippetLines(Take(retrieved, GenericWindow), 1, <<>>))

StaffMentioned(ds) ==
    \E i \in 1..Len(ds) : \/ Contains(Lower(ds[i].text), <<"prepod", "a">>)
                          \/ Contains(Lower(ds[i].text), <<"lektor">>)

\* variant: the staffing intent tried before the cost intent
CascadeStaffFirst(question, retrieved, ds, info, fact_line, course_names) ==
    IF _looks_like_teacher_question(question) /\ ~StaffMentioned(ds)
    THEN StaffAnswer(info)
    ELSE IF _looks_like_cost_question(question) /\ fact_line # <<>>
    THEN CostAnswer(info, fact_line)
    ELSE IF course_names # <<>>
    THEN CourseAnswer(info, Join(course_names, <<",", " ">>))
    ELSE GenericAnswer(info, retrieved)

\* the intent cascade of build_answer on a non-empty candidate list
Cascade(question, retrieved, ds, info, fact_line, course_names) ==
    IF _looks_like_cost_question(question) /\ fact_line # <<>>
    THEN CostAnswer(info, fact_line)
    ELSE IF _looks_like_teacher_question(question) /\ ~StaffMentioned(ds)
    THEN StaffAnswer(info)
    ELSE IF course_names # <<>>
    THEN CourseAnswer(info, Join(course_names, <<",", " ">>))
    ELSE GenericAnswer(info, retrieved)

AnswerFrom(question, retrieved, ds) ==
    Cascade(question, retrieved, ds, _extract_program_info(ds), FactLine(_find_facts(ds)),
            _collect_course_names(ds, CourseLimit))

\* retrieved: a sequence of [doc, s]
build_answer(question, retrieved) ==
    IF retrieved = <<>> THEN NoAnswerText
    ELSE AnswerFrom(question, retrieved, TextDocs(retrieved))

----------------------------------------------------------------------------
(* generator.TinyGenerator.generate: the post-processing of the decoded text *)

AnswerMarker == "Otvet:"
CannedNoAnswer == <<"V materialah net tochnogo otveta.">>

LastIndexOf(s, a) ==
    IF \E i \in 1..Len(s) : s[i] = a
    THEN CHOOSE i \in 1..Len(s) : s[i] = a /\ \A j \in (i + 1)..Len(s) : s[j] # a
    ELSE 0

\* text.split(marker)[-1]
AfterLast(s, marker) == SubSeq(s, LastIndexOf(s, marker) + 1, Len(s))

\* s.split(sep) for a one-atom separator
RECURSIVE SplitAll(_, _)
SplitAll(s, sep) ==
    IF \E i \in 1..Len(s) : s[i] = sep
    THEN <<SplitFirst(s, sep)>> \o SplitAll(SubSeq(s, Len(SplitFirst(s, sep)) + 2, Len(s)), sep)
    ELSE <<s>>

MaxSentences == 2

WithPeriod(ans) == IF EndsWith(ans, <<".">>) THEN ans ELSE ans \o <<".">>

TrimPartsNoPeriod(ans, parts) ==
    IF Len(parts) > MaxSentences
    THEN Strip(Join(Take(parts, MaxSentences), <<".">>))
    ELSE ans

TrimParts(ans, parts) ==
    IF Len(parts) > MaxSentences
    THEN WithPeriod(Strip(Join(Take(parts, MaxSentences), <<".">>)))
    ELSE ans

TrimSentences(ans) == TrimParts(ans, SplitAll(ans, "."))

OrCanned(ans) == IF ans = <<>> THEN CannedNoAnswer ELSE ans

PostProcess(decoded) == OrCanned(TrimSentences(Strip(AfterLast(decoded, AnswerMarker))))

\* what the model may decode to
DecodedOutputs ==
    { <<"Zadacha", "Otvet:", " ", "Stoit 599k">>,
      <<"Zadacha", "Otvet:", " ", "Raz", ".", " ", "Dva", ".", " ", "Tri", ".">>,
      <<"Zadacha", "Otvet:", " ">> }

----------------------------------------------------------------------------
(* recommender                                                             *)

_HEADING_KEYWORDS ==
    { <<"uchebnyj plan">>, <<"naimenovanie modulej">>, <<"blok">>, <<"obyazateln">>,
      <<"pul vybornyh">>, <<"attestac">>, <<"praktik">>,
      <<"individualnaya professionalnaya podgotovka">> }

HeadingMaxLen == 80

\* variant: the length rule without its parenthesis and comma exemption
HeadingShapeLongOnly(nl) ==
    \/ nl = <<>>
    \/ AnyIn(_HEADING_KEYWORDS, nl)
    \/ EndsWith(nl, <<"semestr">>) \/ Contains(nl, <<" ", "semestr">>)
    \/ CharLen(nl) > HeadingMaxLen

HeadingShape(nl) ==
    \/ nl = <<>>
    \/ AnyIn(_HEADING_KEYWORDS, nl)
    \/ EndsWith(nl, <<"semestr">>) \/ Contains(nl, <<" ", "semestr">>)
    \/ (CharLen(nl) > HeadingMaxLen /\ ~Contains(nl, <<"(">>) /\ ~Contains(nl, <<",">>))

_is_heading(name) == HeadingShape(Lower(Strip(name)))

StripAll(names) == Tuple([i \in 1..Len(names) |-> Strip(names[i])])

_extract_course_names(program) ==
    SelectSeq(StripAll(Project(program.curriculum, "name")),
              LAMBDA nm : nm # <<>> /\ ~_is_heading(nm))

\* seq[:n] for any integer n
PySlice(s, n) == IF n >= 0 THEN Take(s, n)
                 ELSE Take(s, IF Len(s) + n > 0 THEN Len(s) + n ELSE 0)

Scored(names, score) ==
    Tuple([i \in 1..Len(names) |-> [name |-> names[i], score |-> score[names[i]]]])

\* variant: the sort without reverse=True
SortByScoreAscending(scored) ==
    Permute(scored,
            StableDescOrder(Tuple([i \in 1..Len(scored) |-> <<0 - scored[i].score, 0>>])))

\* variant: a descending sort that puts the later entry of a tie first
SortByScoreLaterFirst(scored) ==
    Permute(scored, StableDescOrder(Tuple([i \in 1..Len(scored) |-> <<scored[i].score, i>>])))

\* scored.sort(key=lambda e: e.score, reverse=True)
SortByScore(scored) ==
    Permute(scored, StableDescOrder(Tuple([i \in 1..Len(scored) |-> <<scored[i].score, 0>>])))

RankNames(names, score, top_k) ==
    IF names = <<>> THEN <<>> ELSE PySlice(SortByScore(Scored(names, score)), top_k)

\* score: the library's max(partial_ratio, token_set_ratio) of the lower-cased
\* background against each lower-cased name, on the 0..100 scale
recommend_electives(score, program, top_k) ==
    RankNames(_extract_course_names(program), score, top_k)

RECURSIVE SumScores(_)
SumScores(recs) == IF recs = <<>> THEN 0 ELSE Head(recs).score + SumScores(Tail(recs))

\* variant: the zero result also returned for a zero aggregate
AggregateZeroSum(recs) ==
    IF recs = <<>> \/ SumScores(recs) = 0 THEN [agg |-> [num |-> 0, den |-> 1], recs |-> <<>>]
    ELSE [agg |-> [num |-> SumScores(recs), den |-> Len(recs)], recs |-> recs]

\* the aggregate is the fraction num/den of scores in hundredths
Aggregate(recs) ==
    IF recs = <<>> THEN [agg |-> [num |-> 0, den |-> 1], recs |-> <<>>]
    ELSE [agg |-> [num |-> SumScores(recs), den |-> Len(recs)], recs |-> recs]

score_program(score, program, top_k) == Aggregate(recommend_electives(score, program, top_k))

----------------------------------------------------------------------------
(* handlers: one session of the bot                                        *)

R(kind, text) == [kind |-> kind, text |-> text]

\* the (Doc, similarity) pairs behind (position, similarity) pairs
Resolve(ds, pairs) ==
    Tuple([i \in 1..Len(pairs) |-> [doc |-> ds[pairs[i].d], s |-> pairs[i].s]])

\* what a handler leaves behind: the session data, where the handler stands, and
\* the trace of the update (candidate set, gate verdict, calls made, replies sent)
Outcome(ud, at, pairs, gate, calls, replies) ==
    [ud |-> ud, pc |-> at, pairs |-> pairs, gate |-> gate, calls |-> calls,
     replies |-> replies]

CourseNames == {CourseML, CourseData, CoursePhil, CoursePract, CoursePlan, CourseSemHead}

\* the library's elective scores for a background, by course name
LibScore(bg) ==
    [n \in CourseNames |->
        IF bg = <<>> THEN 0
        ELSE IF n = CourseData THEN 100 ELSE IF n = CourseML THEN 50 ELSE 20]

Saved(ud, txt) ==
    IF txt = <<>>
    THEN Outcome(ud, "idle", <<>>, "none", <<"save_background">>, <<R("bg_empty", <<>>)>>)
    ELSE Outcome([ud EXCEPT !.background = <<txt>>, !.awaiting = FALSE], "idle", <<>>,
                 "none", <<"save_background">>, <<R("bg_saved", <<>>)>>)

\* save_background when awaiting_background is set
save_background(ud, m) == Saved(ud, Strip(m))

Answered(answer) ==
    [pc |-> "idle", gate |-> "pass", calls |-> <<"is_relevant", "build_answer">>,
     replies |-> <<R("answer", answer)>>]

\* the tail of message_router, from the gate on
\* variant: the preference shortcut tried before the gate
GateAndAnswerShortcutFirst(gen, text, cands) ==
    IF AnyIn(_PREF_WORDS, Lower(text))
    THEN Answered(build_answer(text, cands))
    ELSE IF ~is_relevant(text, cands)
    THEN [pc |-> "idle", gate |-> "reject", calls |-> <<"is_relevant">>,
          replies |-> <<R("reject", <<>>)>>]
    ELSE IF gen
    THEN [pc |-> "generating", gate |-> "pass", calls |-> <<"is_relevant", "generate">>,
          replies |-> <<R("generating", <<>>)>>]
    ELSE Answered(build_answer(text, cands))

GateAndAnswer(gen, text, cands) ==
    IF ~is_relevant(text, cands)
    THEN [pc |-> "idle", gate |-> "reject", calls |-> <<"is_relevant">>,
          replies |-> <<R("reject", <<>>)>>]
    ELSE IF AnyIn(_PREF_WORDS, Lower(text))
    THEN Answered(build_answer(text, cands))
    ELSE IF gen
    THEN [pc |-> "generating", gate |-> "pass", calls |-> <<"is_relevant", "generate">>,
          replies |-> <<R("generating", <<>>)>>]
    ELSE Answered(build_answer(text, cands))

Gated(ud, pairs, g) ==
    Outcome(ud, g.pc, pairs, g.gate, <<"save_background", "search">> \o g.calls, g.replies)

Routed(ud, gen, ds, text, pairs) ==
    Gated(ud, pairs, GateAndAnswer(gen, text, Resolve(ds, pairs)))

message_router(ud, gen, ds, ix, m) ==
    IF ud.awaiting THEN save_background(ud, m)
    ELSE IF ud.program = NONE
    THEN Outcome(ud, "idle", <<>>, "none", <<"save_background">>,
                 <<R("select_first", <<>>)>>)
    ELSE Routed(ud, gen, ds, Strip(m), Candidates(ds, ix, Strip(m), ud.program))

\* variant: the generator call outside any try/except
AfterGenerateNoCatch(result, text, cands) ==
    IF result.kind = "raise"
    THEN [calls |-> <<>>, replies |-> <<>>]
    ELSE IF result.value # <<>> /\ Strip(result.value) # <<>>
    THEN [calls |-> <<>>, replies |-> <<R("llm", result.value)>>]
    ELSE [calls |-> <<"build_answer">>, replies |-> <<R("answer", build_answer(text, cands))>>]

\* message_router after generator.generate returned or raised
AfterGenerate(result, text, cands) ==
    IF result.kind = "return" /\ result.value # <<>> /\ Strip(result.value) # <<>>
    THEN [calls |-> <<>>, replies |-> <<R("llm", result.value)>>]
    ELSE [calls |-> <<"build_answer">>, replies |-> <<R("answer", build_answer(text, cands))>>]

\* variant: the choice stored without the catalog membership test
ChosenUnchecked(progs, ud, choice) ==
    IF choice # <<>>
    THEN [ud |-> [ud EXCEPT !.program = choice[1]], conv |-> "none",
          replies |-> <<R("selected", choice)>>]
    ELSE [ud |-> ud, conv |-> "SELECT_PROGRAM", replies |-> <<R("not_found", <<>>)>>]

Chosen(progs, ud, choice) ==
    IF \E t \in Titles(progs) : <<t>> = choice
    THEN [ud |-> [ud EXCEPT !.program = choice[1]], conv |-> "none",
          replies |-> <<R("selected", choice)>>]
    ELSE [ud |-> ud, conv |-> "SELECT_PROGRAM", replies |-> <<R("not_found", <<>>)>>]

select_program(progs, ud, m) == Chosen(progs, ud, Strip(m))

PlanLimit == 30

PlanLines(curriculum) ==
    Join(Project(SelectSeq(Take(curriculum, PlanLimit), LAMBDA c : c.name # <<>>), "name"),
         <<"\n">>)

plan_cmd(progs, ud) ==
    IF ud.program = NONE THEN <<R("select_first", <<>>)>>
    ELSE <<R("plan", PlanLines(ProgramByTitle(progs, ud.program).curriculum))>>

RecommendTopK == 7
CompareTopK == 5
ShownRecs == 5

RecReply(recs) ==
    IF recs = <<>> THEN <<R("no_recs", <<>>)>>
    ELSE <<R("recs", Join(Project(Take(recs, ShownRecs), "name"), <<"\n">>))>>

\* (user_data.get("background") or "").strip(); the key holds <<>> while absent, <<text>> once stored
BackgroundOf(ud) == IF ud.background = <<>> THEN <<>> ELSE Strip(ud.background[1])

Recommended(progs, ud, bg) ==
    IF ud.program = NONE
    THEN [conv |-> "none", replies |-> <<R("select_first", <<>>)>>]
    ELSE IF bg = <<>>
    THEN [conv |-> "ASK_BACKGROUND", replies |-> <<R("ask_background", <<>>)>>]
    ELSE [conv |-> "none",
          replies |-> RecReply(recommend_electives(LibScore(bg),
                                   ProgramByTitle(progs, ud.program), RecommendTopK))]

recommend_cmd(progs, ud) == Recommended(progs, ud, BackgroundOf(ud))

Received(progs, ud, background) ==
    [ud |-> [ud EXCEPT !.background = <<background>>], conv |-> "none",
     replies |-> RecReply(recommend_electives(LibScore(background),
                              ProgramByTitle(progs, ud.program), RecommendTopK))]

receive_background(progs, ud, m) == Received(progs, ud, Strip(m))

\* the aggregate as an integer sort key: den is at most CompareTopK, so 60/den is exact
AggKey(agg) == (agg.num * 60) \div agg.den

BestShown == 2

ScoredPrograms(progs, bg) ==
    Tuple([i \in 1..Len(progs) |->
              [title |-> progs[i].title,
               key |-> AggKey(score_program(LibScore(bg), progs[i], CompareTopK).agg)]])

\* scored.sort(key=lambda t: t[1], reverse=True); best = scored[:2]
BestOf(scored) ==
    Take(Permute(scored, StableDescOrder(Tuple([i \in 1..Len(scored) |-> <<scored[i].key, 0>>]))),
         BestShown)

Compared(progs, bg) ==
    IF bg = <<>> THEN <<R("need_background", <<>>)>>
    ELSE <<R("compare", Project(BestOf(ScoredPrograms(progs, bg)), "title"))>>

compare_cmd(progs, ud) == Compared(progs, BackgroundOf(ud))

----------------------------------------------------------------------------
(* The bot serving one session                                             *)

NoResult == [kind |-> "none", value |-> <<>>]

NoUpdate == [handler |-> "none", text |-> <<>>, pairs |-> <<>>,
             gate |-> "none", calls |-> <<>>, replies |-> <<>>, result |-> NoResult]

Update(h, m, pairs, gate, calls, replies) ==
    [handler |-> h, text |-> m, pairs |-> pairs, gate |-> gate,
     calls |-> calls, replies |-> replies, result |-> NoResult]

\* what the user types: messages and the program buttons
Typed == {QCost, QPrice, QPref, QOff, QBlank, QTitleAI, QTitlePM}

Init ==
    /\ programs \in Catalogs
    /\ docs = build_documents(programs)
    /\ index \in Indexes
    /\ generator \in BOOLEAN
    /\ user_data = [program |-> NONE, background |-> <<>>, awaiting |-> FALSE]
    /\ conv = "none"
    /\ pc = "idle"
    /\ cur = NoUpdate
    /\ fin = <<>>
    /\ fout = <<>>

\* variant: a handler that sorts retriever.docs in place (here: reverses it)
FrameDocsResorted ==
    /\ docs' = Tuple([i \in 1..Len(docs) |-> docs[Len(docs) + 1 - i]])
    /\ UNCHANGED <<programs, index, generator, fin, fout>>

\* what no handler writes: the shared structures and everything outside the
\* calling user's session
Frame == UNCHANGED <<docs, programs, index, generator, fin, fout>>

\* a handler that replies and changes nothing else but the conversation state
Replied(h, m, ud, cv, replies) ==
    /\ user_data' = ud
    /\ conv' = cv
    /\ cur' = Update(h, m, <<>>, "none", <<>>, replies)
    /\ UNCHANGED pc /\ Frame

ConvStep(h, m, o) == Replied(h, m, o.ud, o.conv, o.replies)

Start ==
    /\ pc = "idle"
    /\ Replied("start", <<>>, user_data, "SELECT_PROGRAM", <<R("choose", <<>>)>>)

SelectProgram ==
    /\ pc = "idle" /\ conv = "SELECT_PROGRAM"
    /\ \E m \in Typed : ConvStep("select_program", m, select_program(programs, user_data, m))

PlanCmd ==
    /\ pc = "idle"
    /\ Replied("plan_cmd", <<>>, user_data, conv, plan_cmd(programs, user_data))

BackgroundCmd ==
    /\ pc = "idle"
    /\ Replied("background_cmd", <<>>, [user_data EXCEPT !.awaiting = TRUE], conv,
               <<R("describe_background", <<>>)>>)

CmdStep(h, o) == Replied(h, <<>>, user_data, o.conv, o.replies)

RecommendCmd ==
    /\ pc = "idle" /\ conv = "none"
    /\ CmdStep("recommend_cmd", recommend_cmd(programs, user_data))

ReceiveBackground ==
    /\ pc = "idle" /\ conv = "ASK_BACKGROUND"
    /\ \E m \in Typed :
          ConvStep("receive_background", m, receive_background(programs, user_data, m))

CompareCmd ==
    /\ pc = "idle"
    /\ Replied("compare_cmd", <<>>, user_data, conv, compare_cmd(programs, user_data))

RouterStep(m, o) ==
    /\ user_data' = o.ud
    /\ pc' = o.pc
    /\ cur' = Update("message_router", m, o.pairs, o.gate, o.calls, o.replies)
    /\ UNCHANGED conv /\ Frame

MessageRouter ==
    /\ pc = "idle" /\ conv = "none"
    /\ \E m \in Typed : RouterStep(m, message_router(user_data, generator, docs, index, m))

Resumed(res, o) ==
    /\ cur' = [cur EXCEPT !.calls = @ \o o.calls, !.replies = @ \o o.replies, !.result = res]
    /\ pc' = "idle"
    /\ UNCHANGED <<user_data, conv>> /\ Frame

Resume(res) == Resumed(res, AfterGenerate(res, Strip(cur.text), Resolve(docs, cur.pairs)))

\* generator.generate returns the post-processed decoding
GenerateReturns ==
    /\ pc = "generating"
    /\ \E decoded \in DecodedOutputs : Resume([kind |-> "return", value |-> PostProcess(decoded)])

\* generator.generate raises (model error, out of memory)
GenerateRaises ==
    /\ pc = "generating"
    /\ Resume([kind |-> "raise", value |-> <<>>])

\* generator.generate never returns: the handler stays inside the call
GenerateHangs ==
    /\ pc = "generating"
    /\ pc' = "hung"
    /\ cur' = [cur EXCEPT !.result = [kind |-> "hang", value |-> <<>>]]
    /\ UNCHANGED <<user_data, conv>> /\ Frame

Next ==
    \/ Start
    \/ SelectProgram
    \/ PlanCmd
    \/ BackgroundCmd
    \/ RecommendCmd
    \/ ReceiveBackground
    \/ CompareCmd
    \/ MessageRouter
    \/ GenerateReturns
    \/ GenerateRaises
    \/ GenerateHangs

Spec == Init /\ [][Next]_vars

----------------------------------------------------------------------------
(* The pure functions on inputs drawn from bounded sets                    *)

SeqsUpTo(S, n) == UNION {[1..k -> S] : k \in 0..n}

\* the variables of the serving bot, at rest
Idle ==
    /\ docs = <<>> /\ programs = <<>> /\ index = 0 /\ generator = FALSE
    /\ user_data = [program |-> NONE, background |-> <<>>, awaiting |-> FALSE]
    /\ conv = "none" /\ pc = "idle" /\ cur = NoUpdate

Rest == <<docs, programs, index, generator, user_data, conv, pc, cur, fin>>

\* is_relevant(question, retrieved)
MaxGateLen == 2
GateSims == {NoMatchSim, 10, 15, 16, 100}
GateDoc == Doc(<<"d">>, <<"tekst">>, ProgAI, "description")

InitGate ==
    /\ Idle
    /\ fin \in [question : Queries,
                retrieved : SeqsUpTo([doc : {GateDoc}, s : GateSims], MaxGateLen)]
    /\ fout = <<>>

CallIsRelevant ==
    /\ fout = <<>>
    /\ fout' = <<[value |-> is_relevant(fin.question, fin.retrieved)]>>
    /\ UNCHANGED Rest

SpecGate == InitGate /\ [][CallIsRelevant]_vars

\* build_answer(question, retrieved)
MaxCands == 4

MetaOf(title, url, section) ==
    [program_title |-> title, program_url |-> url, section |-> section]

DFacts      == [id |-> "f", text |-> <<"Stoimost", "'", ":", " ", "599k", " ", "R-sign", ";",
                                      " ", "Srok obucheniya", ":", " ", "2y">>,
                meta |-> MetaOf(NONE, NONE, "facts")]
DCourseML   == [id |-> "c1", text |-> CourseML, meta |-> MetaOf("AI", "url-ai", "course")]
DCourseHead == [id |-> "c2",
                text |-> <<"Praktik", "a", " ", "|", " ", "semestr", ":", " ", "3">>,
                meta |-> MetaOf("PM", NONE, "course")]
DEmpty      == [id |-> "e", text |-> <<>>, meta |-> MetaOf("AI", NONE, "description")]
DBlank      == [id |-> "b", text |-> <<" ">>, meta |-> MetaOf(NONE, NONE, "description")]
DStaff      == [id |-> "s", text |-> <<"Lektor", " ", "Ivanov">>,
                meta |-> MetaOf(NONE, NONE, "description")]

DFactsTerm  == [id |-> "t", text |-> <<"Srok obucheniya", ":", " ", "2y">>,
                meta |-> MetaOf("PM", NONE, "facts")]

AnswerDocs == {DFacts, DFactsTerm, DCourseML, DCourseHead, DEmpty, DBlank, DStaff}
AnswerQuestions == {QCost, QPrice, QTeach, QOff}

InitAnswer ==
    /\ Idle
    /\ fin \in [question : AnswerQuestions,
                retrieved : SeqsUpTo([doc : AnswerDocs, s : {40}], MaxCands)]
    /\ fout = <<>>

CallBuildAnswer ==
    /\ fout = <<>>
    /\ fout' = <<[answer |-> build_answer(fin.question, fin.retrieved)]>>
    /\ UNCHANGED Rest

SpecAnswer == InitAnswer /\ [][CallBuildAnswer]_vars

\* recommend_electives(background, program, top_k) and score_program
MaxCurriculum == 3
MaxTopK == 2
ScoreLevels == {0, 50, 100}
RecNames == {CourseML, CourseData, CoursePlan, <<>>}
ScoredNames == {CourseML, CourseData}

InitRec ==
    /\ Idle
    /\ fin \in [score : [ScoredNames -> ScoreLevels],
                curriculum : SeqsUpTo({Entry(n, NONE, NONE) : n \in RecNames}, MaxCurriculum),
                top_k : (-1)..MaxTopK]
    /\ fout = <<>>

CallRecommender ==
    /\ fout = <<>>
    /\ fout' = <<[recs |-> recommend_electives(fin.score, [curriculum |-> fin.curriculum],
                                              fin.top_k),
                  prog |-> score_program(fin.score, [curriculum |-> fin.curriculum],
                                         fin.top_k)]>>
    /\ UNCHANGED Rest

SpecRec == InitRec /\ [][CallRecommender]_vars

\* _extract_course_names and the candidates recommend_electives scores
MaxEntries == 2

NamePractSem == <<"Praktik", "a", ".", " ", "3", " ", "semestr">>
NameMLAdv    == <<"Mashinnoe obuchenie", " ", "(", "prodvinutyj kurs", ")">>
NameSemOnly  == <<"1", " ", "semestr">>
NameSemEnd   == <<"3", "semestr">>
NameSemInner == <<"tri", "semestr", "ovyj">>
NameLong     == <<"title-of-81">>
NameLongList == <<"title-of-81", ",">>
NameEighty   == <<"title-of-80">>
NamePadded   == <<" ", "Analiz dannyh", " ">>

FilterNames ==
    { NamePractSem, NameMLAdv, NameSemOnly, NameSemEnd, NameSemInner, NameLong,
      NameLongList, NameEighty, NamePadded, CoursePlan, <<" ">>, <<>> }

\* one library score for every name: the sort then keeps the curriculum order
EvenScore == [n \in {Strip(x) : x \in FilterNames} |-> 50]

InitFilter ==
    /\ Idle
    /\ fin \in [curriculum : SeqsUpTo({Entry(n, NONE, NONE) : n \in FilterNames}, MaxEntries)]
    /\ fout = <<>>

CallExtract ==
    /\ fout = <<>>
    /\ fout' = <<[names |-> _extract_course_names([curriculum |-> fin.curriculum]),
                  recs |-> recommend_electives(EvenScore, [curriculum |-> fin.curriculum],
                                               Len(fin.curriculum))]>>
    /\ UNCHANGED Rest

SpecFilter == InitFilter /\ [][CallExtract]_vars

\* ---- generate's post-processing on its own: every decoded output ----

MaxDecoded == 5

DecodedAtoms == {AnswerMarker, ".", " ", "da"}

InitGen ==
    /\ Idle
    /\ fin \in [decoded : SeqsUpTo(DecodedAtoms, MaxDecoded)]
    /\ fout = <<>>

CallGenerate ==
    /\ fout = <<>>
    /\ fout' = <<[answer |-> PostProcess(fin.decoded)]>>
    /\ UNCHANGED Rest

SpecGen == InitGen /\ [][CallGenerate]_vars

\* Retriever.search, called twice with a message_router run in between
MaxK == 4
SearchQueries == {QCost, QOff, QTitleAI}

InitSearch ==
    /\ programs \in Catalogs
    /\ docs = build_documents(programs)
    /\ index \in Indexes
    /\ generator = FALSE
    /\ user_data \in [program : Titles(programs), background : {<<>>}, awaiting : {FALSE}]
    /\ conv = "none" /\ pc = "idle" /\ cur = NoUpdate
    /\ fin \in [query : SearchQueries, k : 1..MaxK]
    /\ fout = <<>>

CallSearch ==
    /\ Len(fout) \in {0, 2}
    /\ fout' = Append(fout, [pairs |-> search(docs, index, fin.query, fin.k)])
    /\ UNCHANGED Rest

Between(m, o) ==
    /\ user_data' = o.ud
    /\ pc' = o.pc
    /\ cur' = Update("message_router", m, o.pairs, o.gate, o.calls, o.replies)
    /\ fout' = Append(fout, [pairs |-> o.pairs])
    /\ UNCHANGED <<docs, programs, index, generator, conv, fin>>

RouterBetween ==
    /\ pc = "idle" /\ Len(fout) = 1
    /\ \E m \in Typed : Between(m, message_router(user_data, generator, docs, index, m))

NextSearch == CallSearch \/ RouterBetween

SpecSearch == InitSearch /\ [][NextSearch]_vars

----------------------------------------------------------------------------
(* Start-up: build_app loads the retriever, the catalog and the generator  *)

\* variant: a retriever that comes up without its vector index
RetrieverWithoutIndex(env) ==
    IF ~env.docs_file THEN [raised |-> "FileNotFoundError", docs |-> <<>>]
    ELSE [raised |-> NONE, docs |-> build_documents(env.catalog)]

\* Retriever.__init__: _load_docs reads docs.jsonl, _init_index wants faiss.index
Retriever(env) ==
    IF ~env.docs_file THEN [raised |-> "FileNotFoundError", docs |-> <<>>]
    ELSE IF ~env.index_file THEN [raised |-> "FileNotFoundError", docs |-> <<>>]
    ELSE [raised |-> NONE, docs |-> build_documents(env.catalog)]

NotBuilt(error) == [raised |-> error, docs |-> <<>>, programs |-> <<>>, generator |-> FALSE]

build_app(env) ==
    IF ~env.token THEN NotBuilt("RuntimeError")
    ELSE IF Retriever(env).raised # NONE THEN NotBuilt(Retriever(env).raised)
    ELSE [raised |-> NONE, docs |-> Retriever(env).docs, programs |-> env.catalog,
          generator |-> env.enable_llm /\ env.llm_ok]

Environments ==
    [token : BOOLEAN, docs_file : BOOLEAN, index_file : BOOLEAN,
     enable_llm : BOOLEAN, llm_ok : BOOLEAN, catalog : Catalogs]

InitBoot ==
    /\ fin \in Environments
    /\ docs = <<>> /\ programs = <<>> /\ index = 0 /\ generator = FALSE
    /\ user_data = [program |-> NONE, background |-> <<>>, awaiting |-> FALSE]
    /\ conv = "none" /\ pc = "boot" /\ cur = NoUpdate
    /\ fout = <<>>

Booted(app) ==
    /\ pc' = IF app.raised = NONE THEN "idle" ELSE "failed"
    /\ docs' = app.docs
    /\ programs' = app.programs
    /\ generator' = app.generator
    /\ fout' = <<[raised |-> app.raised]>>
    /\ UNCHANGED <<index, user_data, conv, cur, fin>>

\* main: app = build_app(...); app.run_polling() only when build_app returned
BuildApp == pc = "boot" /\ Booted(build_app(fin))

NextBoot == BuildApp \/ Next

SpecBoot == InitBoot /\ [][NextBoot]_vars

----------------------------------------------------------------------------
(* Two user sessions served by one application: user_data and conv belong  *)
(* to the user whose update is being handled, fin keeps the other user's   *)

\* a session right after its user selected a program
SessionOf(title) ==
    [user_data |-> [program |-> title, background |-> <<>>, awaiting |-> FALSE],
     conv |-> "none"]

InitShared ==
    /\ programs = <<ProgSmall, ProgHeadings>>
    /\ docs = build_documents(programs)
    /\ index = 0
    /\ generator = FALSE
    /\ user_data = SessionOf("AI").user_data
    /\ conv = SessionOf("AI").conv
    /\ pc = "idle"
    /\ cur = NoUpdate
    /\ fin = SessionOf("PM")
    /\ fout = <<>>

\* the next update comes from the other user
SwitchSession ==
    /\ pc = "idle"
    /\ user_data' = fin.user_data
    /\ conv' = fin.conv
    /\ fin' = [user_data |-> user_data, conv |-> conv]
    /\ cur' = NoUpdate
    /\ UNCHANGED <<docs, programs, index, generator, pc, fout>>

NextShared ==
    \/ SwitchSession
    \/ PlanCmd
    \/ BackgroundCmd
    \/ RecommendCmd
    \/ ReceiveBackground
    \/ CompareCmd
    \/ MessageRouter

SpecShared == InitShared /\ [][NextShared]_vars

----------------------------------------------------------------------------
(* A session in which generator.generate is configured, scheduled fairly   *)

InitFair == Init /\ generator /\ index = 0

FairSpec == InitFair /\ [][Next]_vars /\ WF_vars(Next)

----------------------------------------------------------------------------
(* Properties                                                              *)

LastReply == IF cur.replies = <<>> THEN R("none", <<>>) ELSE cur.replies[Len(cur.replies)]

\* the update at hand went through message_router's retrieval
Retrieved == cur.handler = "message_router" /\ cur.gate # "none"

\* C1: for every query and every candidate list, the empty list included,
\* build_answer returns a non-empty string (and its evaluation never fails).
C1_AnswerNonEmpty ==
    fout # <<>> => Len(fout[1].answer) > 0 /\ Strip(fout[1].answer) # <<>>

C1_Witness ==
    /\ fout # <<>>
    /\ fin.retrieved = <<>>
    /\ fout[1].answer = NoAnswerText

\* C2: when message_router handles a message of a user who has a selected
\* program and is not awaiting a background, and is_relevant is false for the
\* re-ranked, truncated candidate set, the only reply is the out-of-domain
\* rejection and neither generate nor build_answer is called for the message.
C2_RejectFirst ==
    ( /\ Retrieved
      /\ user_data.program # NONE
      /\ ~is_relevant(Strip(cur.text),
                      Resolve(docs, Candidates(docs, index, Strip(cur.text),
                                               user_data.program))) )
    => /\ cur.replies = <<R("reject", <<>>)>>
       /\ "generate" \notin Range(cur.calls)
       /\ "build_answer" \notin Range(cur.calls)
       /\ pc = "idle"

C2_Witness ==
    /\ Retrieved
    /\ cur.gate = "reject"
    /\ AnyIn(_PREF_WORDS, Lower(Strip(cur.text)))
    /\ cur.replies = <<R("reject", <<>>)>>

\* C3: for an in-domain question with a generator configured, if generate raises
\* or returns an empty or whitespace-only string, nothing of the generator
\* reaches the user and the final reply is build_answer on the same candidates.
C3_FallbackOnFailure ==
    /\ ( /\ Retrieved
         /\ \/ cur.result.kind = "raise"
            \/ cur.result.kind = "return" /\ Strip(cur.result.value) = <<>> )
       => /\ pc = "idle"
          /\ cur.replies = <<R("generating", <<>>),
                             R("answer", build_answer(Strip(cur.text),
                                                      Resolve(docs, cur.pairs)))>>
    /\ pc = "generating"
       => \A v \in {<<>>, <<" ">>, <<" ", " ">>} :
             AfterGenerate([kind |-> "return", value |-> v], Strip(cur.text),
                           Resolve(docs, cur.pairs)).replies
               = <<R("answer", build_answer(Strip(cur.text), Resolve(docs, cur.pairs)))>>

C3_Witness ==
    /\ Retrieved
    /\ cur.result.kind = "raise"
    /\ pc = "idle"
    /\ LastReply.kind = "answer"

\* C4: for an in-domain question with a generator configured, a final answer
\* is eventually sent even when the call to generate never returns.
C4_EventuallyAnswered ==
    (pc = "generating") ~> (pc = "idle" /\ LastReply.kind \in {"llm", "answer"})

C5_Reranked == Rerank(docs, search(docs, index, Strip(cur.text), SearchK), user_data.program)

C5_Selected(p) == docs[p.d].meta.program_title = user_data.program

C5_Ordered(rr) ==
    \A i, j \in 1..Len(rr) :
        i < j => /\ ~(~C5_Selected(rr[i]) /\ C5_Selected(rr[j]))
                 /\ (C5_Selected(rr[i]) <=> C5_Selected(rr[j])) => rr[i].s >= rr[j].s

\* C5: after the re-ranking, every candidate of the selected program precedes
\* every candidate of another program, whatever the similarities, and within
\* each of the two groups the similarities are non-increasing.
C5_ProgramFirst == Retrieved => C5_Ordered(C5_Reranked)

C5_Inverted(rr) ==
    \E i, j \in 1..Len(rr) :
        /\ i < j
        /\ C5_Selected(rr[i]) /\ rr[i].s = 40
        /\ ~C5_Selected(rr[j]) /\ rr[j].s = 90

C5_Witness == Retrieved /\ C5_Inverted(C5_Reranked)

\* C6: for a cost-intent query, whenever the store holds a facts document of the
\* selected program, that document is in the top-5 candidate set handed to
\* is_relevant and build_answer.
C6_FactsKept ==
    ( /\ Retrieved
      /\ AnyIn(_COST_WORDS, Lower(Strip(cur.text)))
      /\ FactDocOf(docs, user_data.program) # 0 )
    => \E i \in 1..Len(cur.pairs) : cur.pairs[i].d = FactDocOf(docs, user_data.program)

C7_Keyword == \E kw \in ALLOWED_KEYWORDS : Contains(Lower(fin.question), Lower(kw))

C7_Alias == PartialRatioAlias(fin.question) > 70

C7_Similar == \E i \in 1..Len(fin.retrieved) : fin.retrieved[i].s > 15

\* C7: is_relevant is true if and only if the lower-cased query contains a
\* lower-cased domain keyword, or the partial ratio against the alias string
\* exceeds 70, or some candidate has similarity above 0.15.
C7_ThreeSignals ==
    fout # <<>> => (fout[1].value <=> (C7_Keyword \/ C7_Alias \/ C7_Similar))

C7_Witness ==
    /\ fout # <<>>
    /\ fout[1].value
    /\ ~C7_Keyword /\ ~C7_Alias /\ C7_Similar
    /\ \E i \in 1..Len(fin.retrieved) : fin.retrieved[i].s = 15

\* C8: is_relevant is true for "skolko stoit obuchenie" with an empty retrieval
\* set, by the keyword signal alone.
C8_CostQueryInDomain ==
    (fout # <<>> /\ fin.question = QCost /\ fin.retrieved = <<>>)
    => (fout[1].value /\ key_hit(fin.question))

\* C9: for every top_k >= 0 the list of recommend_electives has at most top_k
\* entries, non-increasing scores, and every score within [0, 1].
C9_TopKSorted ==
    (fout # <<>> /\ fin.top_k >= 0)
    => /\ Len(fout[1].recs) <= fin.top_k
       /\ \A i, j \in 1..Len(fout[1].recs) :
             i < j => fout[1].recs[i].score >= fout[1].recs[j].score
       /\ \A i \in 1..Len(fout[1].recs) : fout[1].recs[i].score \in 0..100

C9_Witness ==
    /\ fout # <<>>
    /\ fin.top_k = 2
    /\ Len(fin.curriculum) = 3
    /\ fin.curriculum[1].name = CourseML
    /\ Len(fout[1].recs) = 2
    /\ fout[1].recs[1].name = CourseData
    /\ fout[1].recs[1].score > fout[1].recs[2].score

C10_Surviving ==
    \E i \in 1..Len(fin.curriculum) :
        /\ Strip(fin.curriculum[i].name) # <<>>
        /\ ~_is_heading(fin.curriculum[i].name)

C10_Zero == fout[1].prog.agg.num = 0 /\ fout[1].prog.recs = <<>>

\* C10: score_program returns exactly (0.0, []) if and only if no entry of the
\* curriculum survives the filtering.  As stated, for every top_k:
C10_ZeroIffNoCourses == fout # <<>> => (C10_Zero <=> ~C10_Surviving)

\* C10, amended: the equivalence holds for every top_k >= 1.
C10_ZeroIffNoCoursesTopK ==
    (fout # <<>> /\ fin.top_k >= 1) => (C10_Zero <=> ~C10_Surviving)

C10_Witness ==
    /\ fout # <<>>
    /\ fin.top_k >= 1
    /\ C10_Surviving
    /\ \A n \in ScoredNames : fin.score[n] = 0
    /\ fout[1].prog.agg.num = 0
    /\ ~C10_Zero

C11_Excluded(name) ==
    \/ Strip(name) = <<>>
    \/ \E kw \in _HEADING_KEYWORDS : Contains(Lower(Strip(name)), kw)
    \/ EndsWith(Lower(Strip(name)), <<"semestr">>)
    \/ Contains(Lower(Strip(name)), <<" ", "semestr">>)
    \/ /\ CharLen(Lower(Strip(name))) > 80
       /\ ~Contains(Strip(name), <<"(">>)
       /\ ~Contains(Strip(name), <<",">>)

C11_Kept(curriculum) ==
    StripAll(SelectSeq(Project(curriculum, "name"), LAMBDA nm : ~C11_Excluded(nm)))

C12_SearchContract ==
    fout # <<>> =>
        /\ Len(fout[1].pairs) <= fin.k
        /\ Len(fout[1].pairs) <= Len(docs)
        /\ \A i, j \in 1..Len(fout[1].pairs) :
              i < j => fout[1].pairs[i].s >= fout[1].pairs[j].s
        /\ \A i \in 1..Len(fout[1].pairs) : fout[1].pairs[i].s \in (-100)..100

C14_FailsLoudly ==
    /\ (~fin.docs_file \/ ~fin.index_file) =>
          /\ pc \in {"boot", "failed"}
          /\ cur = NoUpdate
          /\ pc = "failed" => fout[1].raised \in {"RuntimeError", "FileNotFoundError"}
    /\ cur # NoUpdate =>
          /\ fin.docs_file /\ fin.index_file
          /\ docs = build_documents(fin.catalog)
          /\ programs = fin.catalog

C14_Witness ==
    /\ pc = "failed"
    /\ fin.token /\ fin.docs_file /\ ~fin.index_file
    /\ fout[1].raised = "FileNotFoundError"

C16_Texts == SelectSeq(Project(fin.retrieved, "doc"), LAMBDA d : d.text # <<>>)

C16_Qualifying ==
    \E i \in 1..Len(C16_Texts) :
        /\ C16_Texts[i].meta.section = "facts"
        /\ \E cue \in {<<"stoimost", "'">>, <<"cena">>, <<"rub">>, <<"R-sign">>} :
              Contains(Lower(C16_Texts[i].text), cue)

C16_IsCost(answer) ==
    \/ Head(answer) = "Stoimost obucheniya po programme "
    \/ \E i \in 1..Len(C16_Texts) :
          C16_Texts[i].meta.section = "facts" /\ answer = C16_Texts[i].text

C16_IsStaff(answer) == Head(answer) = Head(NoStaffBase)

C16_IsCourse(answer) ==
    Head(answer) \in {"Po uchebnomu planu programmy ", "V uchebnom plane ",
                      "Sredi podhodyashchih kursov: "}

C16_Applies(path) ==
    CASE path = "cost"   -> _looks_like_cost_question(fin.question) /\ C16_Qualifying
      [] path = "staff"  -> _looks_like_teacher_question(fin.question)
                            /\ ~StaffMentioned(C16_Texts)
      [] path = "course" -> _collect_course_names(C16_Texts, 5) # <<>>

\* C16: on a non-empty candidate set build_answer resolves the intents in the
\* order cost, staffing, course listing, generic, and answers by the first path
\* that applies; a cost question with a qualifying facts line gets the cost
\* answer whatever else the query or the candidates hold, and one without such
\* a line falls through to the later paths.
C16_FirstPathWins ==
    (fout # <<>> /\ fin.retrieved # <<>>) =>
        /\ C16_Applies("cost") => C16_IsCost(fout[1].answer) /\ ~C16_IsStaff(fout[1].answer)
        /\ (~C16_Applies("cost") /\ C16_Applies("staff")) => C16_IsStaff(fout[1].answer)
        /\ (~C16_Applies("cost") /\ ~C16_Applies("staff") /\ C16_Applies("course"))
              => C16_IsCourse(fout[1].answer)
        /\ (~C16_Applies("cost") /\ ~C16_Applies("staff") /\ ~C16_Applies("course"))
              => /\ ~C16_IsStaff(fout[1].answer)
                 /\ ~C16_IsCourse(fout[1].answer)
                 /\ Head(fout[1].answer) # "Stoimost obucheniya po programme "

C16_Witness ==
    /\ fout # <<>>
    /\ fin.question = QPrice
    /\ Len(fin.retrieved) = 3
    /\ fin.retrieved[1].doc = DCourseML
    /\ fin.retrieved[2].doc = DFactsTerm
    /\ fin.retrieved[3].doc = DFacts
    /\ Head(fout[1].answer) = "Stoimost obucheniya po programme "

C17_Generic ==
    /\ fout # <<>> /\ fin.retrieved # <<>>
    /\ ~C16_Applies("cost") /\ ~C16_Applies("staff") /\ ~C16_Applies("course")

\* C17: on the generic path the answer body is made of the first up-to-2
\* distinct non-empty texts of the whole ranked candidate set, in first-seen
\* order (for ranked texts A, A, A, B the body holds both A and B).
C17_TwoDistinctTexts ==
    C17_Generic =>
        fout[1].answer = GenericFrom(_extract_program_info(C16_Texts),
                                     SnippetLines(fin.retrieved, 1, <<>>))

C18_CoursePath ==
    /\ fout # <<>> /\ fin.retrieved # <<>>
    /\ ~C16_Applies("cost") /\ ~C16_Applies("staff") /\ C16_Applies("course")

\* C18: on the course-listing path the listed items are course-section texts
\* that are not headings under the recommender's heading filter: no text that
\* _is_heading classifies as a heading appears in the listing.
C18_NoHeadingListed ==
    C18_CoursePath =>
        \A i \in 1..Len(C16_Texts) :
            (C16_Texts[i].meta.section = "course" /\ _is_heading(C16_Texts[i].text))
                => ~Contains(fout[1].answer, Strip(C16_Texts[i].text))

C19_Tail == Strip(AfterLast(fin.decoded, AnswerMarker))

C19_Periods(s) == Cardinality({i \in 1..Len(s) : s[i] = "."})

C19_NonSpace(s) == SelectSeq(s, LAMBDA a : ~IsSpace(a))

C19_Prefix(p, s) == Len(p) <= Len(s) /\ SubSeq(s, 1, Len(p)) = p

\* C19: for every decoded output generate returns a non-empty string taken from
\* the text after the last answer marker, with at most two periods; an output
\* of more than two sentences is cut after the second and ends with a period, a
\* shorter one is returned whole, and an empty one gives the canned sentence.
C19_PostProcessed ==
    fout # <<>> =>
        /\ fout[1].answer # <<>>
        /\ C19_Periods(fout[1].answer) <= MaxSentences
        /\ C19_Tail = <<>> => fout[1].answer = CannedNoAnswer
        /\ (C19_Tail # <<>> /\ C19_Periods(C19_Tail) < MaxSentences)
               => fout[1].answer = C19_Tail
        /\ C19_Periods(C19_Tail) >= MaxSentences =>
               /\ EndsWith(fout[1].answer, <<".">>)
               /\ C19_Prefix(C19_NonSpace(fout[1].answer), C19_NonSpace(C19_Tail))

C19_Witness ==
    /\ fout # <<>>
    /\ fin.decoded = <<AnswerMarker, ".", "da", ".", "da">>
    /\ fout[1].answer = <<".", "da", ".">>

C20_Names == _extract_course_names([curriculum |-> fin.curriculum])

\* the positions of the curriculum's filtered names the returned entries come from
C20_Origins(recs) ==
    {f \in [1..Len(recs) -> 1..Len(C20_Names)] :
        /\ \A i, j \in 1..Len(recs) : i # j => f[i] # f[j]
        /\ \A i \in 1..Len(recs) :
              /\ recs[i].name = C20_Names[f[i]]
              /\ recs[i].score = fin.score[C20_Names[f[i]]]}

\* C20: electives of equal score are returned in their curriculum order, and
\* an entry cut off by top_k that ties with a returned one comes later in the
\* curriculum than the returned one.
C20_StableTies ==
    fout # <<>> =>
        \E f \in C20_Origins(fout[1].recs) :
            /\ \A i, j \in 1..Len(fout[1].recs) :
                  (i < j /\ fout[1].recs[i].score = fout[1].recs[j].score) => f[i] < f[j]
            /\ \A i \in 1..Len(fout[1].recs) :
                  \A m \in 1..Len(C20_Names) :
                      ((\A j \in 1..Len(fout[1].recs) : f[j] # m)
                         /\ fin.score[C20_Names[m]] = fout[1].recs[i].score) => m > f[i]

C20_Witness ==
    /\ fout # <<>>
    /\ fin.top_k = 1
    /\ fin.curriculum = <<Entry(CourseData, NONE, NONE), Entry(CourseML, NONE, NONE)>>
    /\ fin.score[CourseData] = fin.score[CourseML]
    /\ Len(fout[1].recs) = 1
    /\ fout[1].recs[1].name = CourseData

\* the last update stored a non-empty background, by either path
C21_Stored ==
    \/ cur.handler = "receive_background" /\ Strip(cur.text) # <<>>
    \/ cur.handler = "message_router" /\ cur.replies = <<R("bg_saved", <<>>)>>

\* C21: once a non-empty background has been stored, by save_background inside
\* message_router or by receive_background in the /recommend dialogue, the
\* awaiting_background flag is false, so the next text message is not taken
\* as a background.
C21_AwaitingCleared == C21_Stored => ~user_data.awaiting

\* the candidate set of the last message build_answer was called on
C22_Cands == Resolve(docs, cur.pairs)

C22_Answered == cur.handler = "message_router" /\ "build_answer" \in Range(cur.calls)

C22_HasSelected ==
    \E i \in 1..Len(C22_Cands) : C22_Cands[i].doc.meta.program_title = user_data.program

\* C22: whenever the candidate set message_router builds holds a document of
\* the selected program, which it does for every cost question when that
\* program has a facts document, the program title build_answer personalises
\* with is the selected program's title.
C22_SelectedTitle ==
    C22_Answered =>
        /\ (AnyIn(_COST_WORDS, Lower(Strip(cur.text))) /\ FactDocOf(docs, user_data.program) # 0)
               => C22_HasSelected
        /\ C22_HasSelected
               => _extract_program_info(TextDocs(C22_Cands)).title = user_data.program

C22_Witness ==
    /\ C22_Answered
    /\ user_data.program = "PM"
    /\ C22_HasSelected
    /\ \E i \in 1..Len(C22_Cands) : C22_Cands[i].doc.meta.program_title = "AI"
    /\ _extract_program_info(TextDocs(C22_Cands)).title = "PM"

\* C23: in every session state the selected program is unset or a title of
\* the programs catalog, so the catalog lookups of plan_cmd, recommend_cmd and
\* receive_background find their key; the /recommend dialogue waits for a
\* background, and receive_background runs, only with a program selected.
C23_ProgramInCatalog ==
    /\ user_data.program = NONE \/ user_data.program \in Titles(programs)
    /\ conv = "ASK_BACKGROUND" => user_data.program \in Titles(programs)
    /\ cur.handler = "receive_background" => user_data.program \in Titles(programs)

C23_Witness ==
    /\ cur.handler = "receive_background"
    /\ user_data.program = "PM"
    /\ cur.replies # <<>>

====
